---- MODULE Spec2Model ----
(***************************************************************************)
(* Model of Multi_Armed_Bandits_Tutorial.ipynb: the process-wide random    *)
(* generator (np.random), the strategy classes (RandomAlg and the five     *)
(* classes whose methods are left as docstring-only bodies) and            *)
(* run_simulation.                                                          *)
(*                                                                         *)
(* Python values.  None is the empty tuple <<>> and the integer i is the   *)
(* one-element tuple <<i>>.  A float is an integer (rewards and means are  *)
(* whole numbers here).  The value norm.rvs returns is a record            *)
(* [ndim, vals]: ndim = 0 for a scalar, ndim = 2 for the (1, k) array      *)
(* that a loc of shape (1, k) produces.                                    *)
(* Hyperparameters: m is an integer; epsilon and alpha are in hundredths   *)
(* (epsilon = 0.05 is 5); C is in tenths.                                  *)
(***************************************************************************)
EXTENDS Integers, Sequences, FiniteSets, TLC

\* Number of arms per problem (10 in the notebook).
k == 2
\* Largest horizon n passed to run_simulation (1000 in the notebook).
MaxN == 2
\* Number of states of the random generator.
RngMod == 5
\* How many times run_simulation is called on one strategy object.
MaxRuns == 2
\* How many calls a driver makes on a strategy object outside run_simulation.
MaxCalls == 4

\* Two run slots: each holds one strategy object and one call of run_simulation.
Runs == {1, 2}

VARIABLES
  rng,        \* state of the process-wide generator np.random
  seeded,     \* the seed last given to np.random.seed while no draw has been made since, else NoSeed
  alg,        \* alg[r]: the strategy object of slot r
  pc,         \* pc[r]: position of slot r in run_simulation
  cfg,        \* cfg[r]: the arguments true_arm_means and n of the current call
  t,          \* t[r]: the loop variable t
  arm,        \* arm[r]: the local variable arm
  reward,     \* reward[r]: the local variable reward
  rewards,    \* rewards[r]: the array rewards
  log,        \* log[r]: the calls made on slot r's behalf since the run (or the object) began
  uses,       \* uses[r]: number of run_simulation calls made with alg[r]
  start,      \* start[r]: the value of seeded when the current run began
  alone,      \* alone[r]: no other slot stepped and no reseed happened during the current run
  prev        \* prev[r]: record of the run of slot r before the current one, kept when it
              \* was a run of one of the six classes begun right after seeding

vars == <<rng, seeded, alg, pc, cfg, t, arm, reward, rewards, log, uses, start, alone, prev>>

----------------------------------------------------------------------------
\* Python values

None == <<>>
PyInt(i) == <<i>>
IsInt(v) == Len(v) = 1

Scalar(x) == [ndim |-> 0, vals |-> <<x>>]
Array2(xs) == [ndim |-> 2, vals |-> xs]
NoReward == [ndim |-> 0, vals |-> <<>>]

NoSeed == -1

----------------------------------------------------------------------------
\* np.random: the generator every draw comes from

\* a seed call that leaves the generator as it is
np_random_seed_ignored(s) == rng

\* np.random.seed(s): the state is a function of s alone
np_random_seed(s) == s % RngMod

Advance(g) == (g + 1) % RngMod

\* np.random.randint(low=0, high=k): one draw
randint(high, g) == [ret |-> Advance(g) % high, rng |-> Advance(g)]

\* one standard normal draw, as a whole number in {-1, 0, 1}
StdNormal(g) == (Advance(g) % 3) - 1

RECURSIVE Draws(_, _, _)
\* norm.rvs over an array loc: one draw per element, in order
Draws(locs, i, g) ==
  IF i > Len(locs) THEN [vals |-> <<>>, rng |-> g]
  ELSE LET rest == Draws(locs, i + 1, Advance(g))
       IN  [vals |-> <<locs[i] + StdNormal(g)>> \o rest.vals, rng |-> rest.rng]

\* norm.rvs(loc=..., scale=1.0); loc is Scalar or Array2
norm_rvs(loc, g) ==
  IF loc.ndim = 0
  THEN [ret |-> Scalar(loc.vals[1] + StdNormal(g)), rng |-> Advance(g)]
  ELSE LET d == Draws(loc.vals, 1, g) IN [ret |-> Array2(d.vals), rng |-> d.rng]

----------------------------------------------------------------------------
\* The strategy classes

Stubs == {"ExploreThenCommit", "EpsilonGreedy", "UCB1", "GradientBandit",
          "GradientBanditBaseline"}
\* the six classes of the notebook
Classes == {"RandomAlg"} \cup Stubs
\* an object of any other class handed to run_simulation by its caller
OtherAlg == "OtherAlg"

\* The constructor arguments tried for each class
HyperValues(cls) ==
  CASE cls = "ExploreThenCommit" -> {0, 1}
    [] cls = "EpsilonGreedy" -> {0, 150}
    [] cls = "UCB1" -> {0, 10}
    [] cls \in {"GradientBandit", "GradientBanditBaseline"} -> {-10, 10}
    [] OTHER -> {0}

\* __init__: stores the hyperparameter and nothing else; mem is the set of
\* <<name, value>> pairs of every other attribute of the object (none is ever set)
init(cls, h) == [cls |-> cls, hyper |-> h, mem |-> {}]

NoObject == [cls |-> "none", hyper |-> 0, mem |-> {}]

\* reset(self): pass, or a docstring-only body
reset(self) == self

\* RandomAlg.choose_arm: np.random.randint(low=0, high=k), k the global
RandomAlg_choose_arm(g) == [ret |-> PyInt(randint(k, g).ret), rng |-> randint(k, g).rng]

\* choose_arm of the five other classes: a docstring-only body returns None
Stub_choose_arm(g) == [ret |-> None, rng |-> g]

\* what choose_arm of an object of another class may return
OtherReturns == {PyInt(i) : i \in (0 - (k + 1)) .. k}

choose_arm(self, g) ==
  IF self.cls = "RandomAlg" THEN {RandomAlg_choose_arm(g)}
  ELSE IF self.cls \in Stubs THEN {Stub_choose_arm(g)}
  ELSE {[ret |-> v, rng |-> g] : v \in OtherReturns}

\* an observe_reward that remembers what it saw, in an object whose reset clears nothing
observe_reward_remembers(self, a, rw) == [self EXCEPT !.mem = {<<"last", a, rw>>}]

\* observe_reward(self, arm, reward): pass, or a docstring-only body
observe_reward(self, a, rw) == self

----------------------------------------------------------------------------
\* numpy indexing and assignment as run_simulation uses them

\* true_arm_means[arm] raises IndexError
IndexError(means, a) == IsInt(a) /\ (a[1] >= Len(means) \/ a[1] < 0 - Len(means))

\* true_arm_means[arm]: None adds an axis, a negative integer counts from the end
GetItem(means, a) ==
  IF a = None THEN Array2(means)
  ELSE Scalar(means[(a[1] % Len(means)) + 1])

\* rewards[t] = reward raises ValueError (an array of more than one element)
ValueError(rw) == Len(rw.vals) # 1

\* rewards[t] = reward
SetItem(arr, i, rw) == [arr EXCEPT ![i + 1] = rw.vals[1]]

\* np.zeros(n)
zeros(n) == [i \in 1 .. n |-> 0]

\* the problem instances: vectors of k true means
MeansSet == {[i \in 1 .. k |-> 0], [i \in 1 .. k |-> IF i = k THEN 5 ELSE 0]}

NoCfg == [means |-> <<>>, n |-> 0]

----------------------------------------------------------------------------
\* The record of calls

Ev(op, step, a, rw) == <<op, step, a, rw>>
Op(e) == e[1]
StepOf(e) == e[2]
ArmOf(e) == e[3]
RewardOf(e) == e[4]

Running(r) == pc[r] \in {"choose", "sample", "observe", "record"}
Finished(r) == pc[r] \in {"done", "failed"}

NoPrev == [cfg |-> NoCfg, cls |-> "none", hyper |-> 0, start |-> NoSeed,
           alone |-> FALSE, pc |-> "none", log |-> <<>>, rewards |-> <<>>]

\* what is kept of a finished run
RunRecord(r) == [cfg |-> cfg[r], cls |-> alg[r].cls, hyper |-> alg[r].hyper,
                 start |-> start[r], alone |-> alone[r], pc |-> pc[r],
                 log |-> log[r], rewards |-> rewards[r]]

\* alone after a step of slot r: every other running slot is no longer alone
Disturb(r) == [q \in Runs |-> IF q # r /\ Running(q) THEN FALSE ELSE alone[q]]

----------------------------------------------------------------------------
Init ==
  /\ rng \in 0 .. (RngMod - 1)
  /\ seeded = rng
  /\ alg = [r \in Runs |-> NoObject]
  /\ pc = [r \in Runs |-> "new"]
  /\ cfg = [r \in Runs |-> NoCfg]
  /\ t = [r \in Runs |-> 0]
  /\ arm = [r \in Runs |-> None]
  /\ reward = [r \in Runs |-> NoReward]
  /\ rewards = [r \in Runs |-> <<>>]
  /\ log = [r \in Runs |-> <<>>]
  /\ uses = [r \in Runs |-> 0]
  /\ start = [r \in Runs |-> NoSeed]
  /\ alone = [r \in Runs |-> FALSE]
  /\ prev = [r \in Runs |-> NoPrev]

\* np.random.seed(s), a top-level statement: never during a call of run_simulation
Reseed(s) ==
  /\ \A q \in Runs : ~Running(q)
  /\ rng' = np_random_seed(s)
  /\ seeded' = s
  /\ UNCHANGED <<alg, pc, cfg, t, arm, reward, rewards, log, uses, start, alone, prev>>

\* cls(h): the constructor call
Construct(r, cls, h) ==
  /\ pc[r] = "new"
  /\ alg' = [alg EXCEPT ![r] = init(cls, h)]
  /\ pc' = [pc EXCEPT ![r] = "idle"]
  /\ UNCHANGED <<rng, seeded, cfg, t, arm, reward, rewards, log, uses, start, alone, prev>>

\* run_simulation(algorithm, true_arm_means, n) up to the loop:
\* rewards = np.zeros(n); algorithm.reset(); for t in range(n)
StartRun(r, means, n) ==
  /\ pc[r] \in {"idle", "done", "failed"}
  /\ uses[r] < MaxRuns
  /\ prev' = [prev EXCEPT ![r] = IF Finished(r) /\ alg[r].cls \in Classes /\ start[r] # NoSeed
                                  THEN RunRecord(r) ELSE NoPrev]
  /\ cfg' = [cfg EXCEPT ![r] = [means |-> means, n |-> n]]
  /\ rewards' = [rewards EXCEPT ![r] = zeros(n)]
  /\ alg' = [alg EXCEPT ![r] = reset(@)]
  /\ log' = [log EXCEPT ![r] = <<Ev("reset", 0, None, NoReward)>>]
  /\ t' = [t EXCEPT ![r] = 0]
  /\ arm' = [arm EXCEPT ![r] = None]
  /\ reward' = [reward EXCEPT ![r] = NoReward]
  /\ pc' = [pc EXCEPT ![r] = IF n > 0 THEN "choose" ELSE "done"]
  /\ uses' = [uses EXCEPT ![r] = @ + 1]
  /\ start' = [start EXCEPT ![r] = seeded]
  /\ alone' = [Disturb(r) EXCEPT ![r] = \A q \in Runs \ {r} : ~Running(q)]
  /\ UNCHANGED <<rng, seeded>>

\* arm = algorithm.choose_arm()
Choose(r) ==
  /\ pc[r] = "choose"
  /\ \E c \in choose_arm(alg[r], rng) :
       /\ arm' = [arm EXCEPT ![r] = c.ret]
       /\ rng' = c.rng
       /\ seeded' = IF c.rng = rng THEN seeded ELSE NoSeed
       /\ log' = [log EXCEPT ![r] = Append(@, Ev("choose", t[r], c.ret, NoReward))]
  /\ pc' = [pc EXCEPT ![r] = "sample"]
  /\ alone' = Disturb(r)
  /\ UNCHANGED <<alg, cfg, t, reward, rewards, uses, start, prev>>

\* reward = norm.rvs(loc=true_arm_means[arm], scale=1.0)
Sample(r) ==
  /\ pc[r] = "sample"
  /\ IF IndexError(cfg[r].means, arm[r])
     THEN /\ pc' = [pc EXCEPT ![r] = "failed"]
          /\ UNCHANGED <<rng, seeded, reward, log>>
     ELSE LET d == norm_rvs(GetItem(cfg[r].means, arm[r]), rng)
          IN  /\ reward' = [reward EXCEPT ![r] = d.ret]
              /\ rng' = d.rng
              /\ seeded' = NoSeed
              /\ log' = [log EXCEPT ![r] = Append(@, Ev("sample", t[r], arm[r], d.ret))]
              /\ pc' = [pc EXCEPT ![r] = "observe"]
  /\ alone' = Disturb(r)
  /\ UNCHANGED <<alg, cfg, t, arm, rewards, uses, start, prev>>

\* observe_reward called with the loop variable in place of the arm
ObserveArgs_t(r) == <<PyInt(t[r]), reward[r]>>

\* the arguments of algorithm.observe_reward(arm, reward)
ObserveArgs(r) == <<arm[r], reward[r]>>

\* algorithm.observe_reward(arm, reward)
Observe(r) ==
  /\ pc[r] = "observe"
  /\ alg' = [alg EXCEPT ![r] = observe_reward(@, ObserveArgs(r)[1], ObserveArgs(r)[2])]
  /\ log' = [log EXCEPT ![r] = Append(@, Ev("observe", t[r], ObserveArgs(r)[1], ObserveArgs(r)[2]))]
  /\ pc' = [pc EXCEPT ![r] = "record"]
  /\ alone' = Disturb(r)
  /\ UNCHANGED <<rng, seeded, cfg, t, arm, reward, rewards, uses, start, prev>>

\* every reward written to the first position
RecordIndex_first(r) == 0

\* the position rewards[t] = reward writes
RecordIndex(r) == t[r]

\* the loop goes on after step s of n
LoopContinues(s, n) == s + 1 < n

\* rewards[t] = reward, and the loop's next iteration or the return
Record(r) ==
  /\ pc[r] = "record"
  /\ IF ValueError(reward[r])
     THEN /\ pc' = [pc EXCEPT ![r] = "failed"]
          /\ UNCHANGED <<rewards, log, t>>
     ELSE /\ rewards' = [rewards EXCEPT ![r] = SetItem(@, RecordIndex(r), reward[r])]
          /\ log' = [log EXCEPT ![r] = Append(@, Ev("record", RecordIndex(r), arm[r], reward[r]))]
          /\ t' = [t EXCEPT ![r] = @ + 1]
          /\ pc' = [pc EXCEPT ![r] = IF LoopContinues(t[r], cfg[r].n) THEN "choose" ELSE "done"]
  /\ alone' = Disturb(r)
  /\ UNCHANGED <<rng, seeded, alg, cfg, arm, reward, uses, start, prev>>

----------------------------------------------------------------------------
\* One strategy object, run after run (the loops over problems of the notebook)

Slot1Step(r) ==
  \/ \E cls \in Classes \cup {OtherAlg} : \E h \in HyperValues(cls) : Construct(r, cls, h)
  \/ \E means \in MeansSet : \E n \in 0 .. MaxN : StartRun(r, means, n)
  \/ Choose(r)
  \/ Sample(r)
  \/ Observe(r)
  \/ Record(r)

Next ==
  \/ \E s \in 0 .. (RngMod - 1) : Reseed(s)
  \/ Slot1Step(1)

Spec == Init /\ [][Next]_vars

----------------------------------------------------------------------------
\* run_simulation executed from generator state g with nothing in between its
\* steps, for the six classes (whose choose_arm returns one value)

RECURSIVE SoloSteps(_, _, _, _, _, _)
SoloSteps(self, means, n, s, g, acc) ==
  IF s >= n THEN [pc |-> "done", log |-> acc.log, rewards |-> acc.rewards]
  ELSE
    LET c == CHOOSE x \in choose_arm(self, g) : TRUE
        log1 == Append(acc.log, Ev("choose", s, c.ret, NoReward))
    IN  IF IndexError(means, c.ret)
        THEN [pc |-> "failed", log |-> log1, rewards |-> acc.rewards]
        ELSE
          LET d == norm_rvs(GetItem(means, c.ret), c.rng)
              log3 == log1 \o <<Ev("sample", s, c.ret, d.ret), Ev("observe", s, c.ret, d.ret)>>
          IN  IF ValueError(d.ret)
              THEN [pc |-> "failed", log |-> log3, rewards |-> acc.rewards]
              ELSE SoloSteps(observe_reward(self, c.ret, d.ret), means, n, s + 1, d.rng,
                             [log |-> Append(log3, Ev("record", s, c.ret, d.ret)),
                              rewards |-> SetItem(acc.rewards, s, d.ret)])

run_simulation(self, means, n, g) ==
  SoloSteps(reset(self), means, n, 0, g,
            [log |-> <<Ev("reset", 0, None, NoReward)>>, rewards |-> zeros(n)])

----------------------------------------------------------------------------
\* Two calls of run_simulation whose steps interleave, as a runner executing
\* them in parallel would make them: one run per slot, on the objects the
\* notebook constructs

NotebookObjects == {<<"RandomAlg", 0>>, <<"ExploreThenCommit", 1>>, <<"EpsilonGreedy", 0>>,
                    <<"UCB1", 0>>, <<"GradientBandit", 10>>, <<"GradientBanditBaseline", 10>>}

PairStep(r) ==
  \/ \E o \in NotebookObjects : Construct(r, o[1], o[2])
  \/ \E means \in MeansSet : \E n \in 1 .. MaxN : uses[r] = 0 /\ StartRun(r, means, n)
  \/ Choose(r)
  \/ Sample(r)
  \/ Observe(r)
  \/ Record(r)

NextPair ==
  \/ \E s \in 0 .. (RngMod - 1) : Reseed(s)
  \/ \E r \in Runs : PairStep(r)

SpecPair == Init /\ [][NextPair]_vars

----------------------------------------------------------------------------
\* The three methods called one at a time on an object, outside run_simulation

\* the rewards handed to observe_reward
RewardValues == {0, 5}

CanCall(r) == pc[r] = "idle" /\ Len(log[r]) < MaxCalls

\* algorithm.reset()
CallReset(r) ==
  /\ CanCall(r)
  /\ alg' = [alg EXCEPT ![r] = reset(@)]
  /\ log' = [log EXCEPT ![r] = Append(@, Ev("reset", 0, None, NoReward))]
  /\ UNCHANGED <<rng, seeded, pc, cfg, t, arm, reward, rewards, uses, start, alone, prev>>

\* algorithm.choose_arm()
CallChoose(r) ==
  /\ CanCall(r)
  /\ \E c \in choose_arm(alg[r], rng) :
       /\ rng' = c.rng
       /\ seeded' = IF c.rng = rng THEN seeded ELSE NoSeed
       /\ log' = [log EXCEPT ![r] = Append(@, Ev("choose", 0, c.ret, NoReward))]
  /\ UNCHANGED <<alg, pc, cfg, t, arm, reward, rewards, uses, start, alone, prev>>

\* algorithm.observe_reward(a, rw)
CallObserve(r, a, rw) ==
  /\ CanCall(r)
  /\ alg' = [alg EXCEPT ![r] = observe_reward(@, PyInt(a), Scalar(rw))]
  /\ log' = [log EXCEPT ![r] = Append(@, Ev("observe", 0, PyInt(a), Scalar(rw)))]
  /\ UNCHANGED <<rng, seeded, pc, cfg, t, arm, reward, rewards, uses, start, alone, prev>>

NextCalls ==
  \/ \E cls \in Classes : \E h \in HyperValues(cls) : Construct(1, cls, h)
  \/ CallReset(1)
  \/ CallChoose(1)
  \/ \E a \in 0 .. (k - 1) : \E rw \in RewardValues : CallObserve(1, a, rw)

SpecCalls == Init /\ [][NextCalls]_vars

----------------------------------------------------------------------------
\* Reading the record of calls

HasRun(r) == uses[r] > 0

\* the indices of log[r] holding a call op
Calls(r, op) == {j \in 1 .. Len(log[r]) : Op(log[r][j]) = op}

\* the call that the j-th entry of a run's record must be, and its step
ExpectedOp(j) ==
  IF j = 1 THEN "reset" ELSE <<"choose", "sample", "observe", "record">>[((j - 2) % 4) + 1]
ExpectedStep(j) == IF j = 1 THEN 0 ELSE (j - 2) \div 4

\* v is an arm index of a problem with n arms
InRange(v, n) == IsInt(v) /\ v[1] >= 0 /\ v[1] < n

----------------------------------------------------------------------------
\* C1: in a run, reset is called once and first; then for each step t = 0, 1, ...
\* in order the calls are choose_arm, one reward sample for the returned arm,
\* observe_reward with that arm and that reward, and the record of that reward
\* at position t; the next call is always the next one of this order.
C1_CallOrder ==
  \A r \in Runs : HasRun(r) =>
    /\ \A j \in 1 .. Len(log[r]) :
         LET e == log[r][j] IN
         /\ Op(e) = ExpectedOp(j)
         /\ StepOf(e) = ExpectedStep(j)
         /\ Op(e) = "sample" => ArmOf(e) = ArmOf(log[r][j - 1])
         /\ Op(e) = "observe" =>
              /\ ArmOf(e) = ArmOf(log[r][j - 2])
              /\ RewardOf(e) = RewardOf(log[r][j - 1])
         /\ Op(e) = "record" => RewardOf(e) = RewardOf(log[r][j - 1])
    /\ Running(r) => pc[r] = ExpectedOp(Len(log[r]) + 1)
    /\ Running(r) => t[r] = ExpectedStep(Len(log[r]) + 1)
    /\ pc[r] = "done" => Len(log[r]) = 1 + 4 * cfg[r].n

\* a run of two or more steps has completed
C1_Witness ==
  \E r \in Runs : pc[r] = "done" /\ cfg[r].n >= 2 /\ Len(log[r]) = 1 + 4 * cfg[r].n

\* C2: a choose_arm result outside [0, k), k the number of arms of the problem,
\* ends the run at once: no reward is sampled for it, observe_reward is not
\* called for it and nothing is recorded for it.
C2_RejectOutOfRange ==
  \A r \in Runs : \A j \in Calls(r, "choose") :
    ~InRange(ArmOf(log[r][j]), Len(cfg[r].means)) => j = Len(log[r])

\* C3: a run that returns has made exactly n steps and its trace has length n;
\* at every moment the trace has length n, position i holds the reward sampled
\* at step i for every step already recorded and 0 for the others.
C3_TraceExact ==
  \A r \in Runs : HasRun(r) =>
    /\ Len(rewards[r]) = cfg[r].n
    /\ t[r] <= cfg[r].n
    /\ pc[r] = "done" => t[r] = cfg[r].n /\ Cardinality(Calls(r, "record")) = cfg[r].n
    /\ \A i \in 1 .. Len(rewards[r]) :
         IF i <= t[r]
         THEN \E j \in Calls(r, "sample") :
                /\ StepOf(log[r][j]) = i - 1
                /\ rewards[r][i] = RewardOf(log[r][j]).vals[1]
         ELSE rewards[r][i] = 0

\* a run of two steps has returned a trace whose two entries differ
C3_Witness ==
  \E r \in Runs : pc[r] = "done" /\ cfg[r].n >= 2 /\ rewards[r][1] # rewards[r][2]

----------------------------------------------------------------------------
\* Reading a strategy object

Constructed(r) == alg[r].cls # "none"

\* the pull count of arm a that the object keeps: the attribute counts when the
\* object has one, and no pull otherwise
PullCount(self, a) ==
  IF \E p \in self.mem : p[1] = "counts"
  THEN (CHOOSE p \in self.mem : p[1] = "counts")[2][a + 1]
  ELSE 0

RECURSIVE SumCounts(_, _)
SumCounts(self, n) == IF n = 0 THEN 0 ELSE PullCount(self, n - 1) + SumCounts(self, n - 1)

\* the index of the last reset in log[r], 0 when there is none
LastReset(r) == IF Calls(r, "reset") = {} THEN 0
                ELSE CHOOSE j \in Calls(r, "reset") : \A i \in Calls(r, "reset") : i <= j

\* the observe_reward calls since the last reset, in order
ObservedSince(r) ==
  SelectSeq(SubSeq(log[r], LastReset(r) + 1, Len(log[r])), LAMBDA e : Op(e) = "observe")

\* the hyperparameter is one the strategy is defined for
ValidHyper(cls, h) ==
  CASE cls = "ExploreThenCommit" -> h >= 1
    [] cls = "EpsilonGreedy" -> h >= 0 /\ h <= 100
    [] cls \in {"GradientBandit", "GradientBanditBaseline"} -> h >= 0
    [] OTHER -> TRUE

----------------------------------------------------------------------------
\* C4: for each of the six strategies, the per-arm pull counts the object keeps
\* sum to the number of observe_reward calls made since the last reset.
C4_CountsTrackObserves ==
  \A r \in Runs : alg[r].cls \in Classes =>
    SumCounts(alg[r], k) = Len(ObservedSince(r))

\* C5: from every reachable state reset leaves the object as its constructor
\* made it, a second reset changes nothing more, and after reset the object
\* chooses as a newly constructed one does from every generator state.
C5_ResetRestores ==
  \A r \in Runs : Constructed(r) =>
    /\ reset(alg[r]) = init(alg[r].cls, alg[r].hyper)
    /\ reset(reset(alg[r])) = reset(alg[r])
    /\ \A g \in 0 .. (RngMod - 1) :
         choose_arm(reset(alg[r]), g) = choose_arm(init(alg[r].cls, alg[r].hyper), g)
    /\ (Running(r) /\ Len(log[r]) = 1) => alg[r] = init(alg[r].cls, alg[r].hyper)

\* an object that observed a reward in one run has been reset for its next run
C5_Witness ==
  \E r \in Runs :
    /\ uses[r] = 2 /\ pc[r] = "choose" /\ Len(log[r]) = 1
    /\ \E j \in 1 .. Len(prev[r].log) : Op(prev[r].log[j]) = "observe"

\* C6: no object of the six classes holds an invalid hyperparameter.
C6_InvalidRejected ==
  \A r \in Runs : alg[r].cls \in Classes => ValidHyper(alg[r].cls, alg[r].hyper)

\* C7: two runs of the same strategy object on the same problem with the same
\* horizon, each begun right after seeding the generator with the same seed and
\* each executed with nothing in between its steps, make the same calls with
\* the same arms and rewards, end the same way and leave the same trace.
C7_SameSeedSameTrace ==
  \A r \in Runs :
    ( /\ Finished(r) /\ alg[r].cls \in Classes
      /\ prev[r].cfg = cfg[r] /\ prev[r].start = start[r] /\ start[r] # NoSeed
      /\ alone[r] /\ prev[r].alone )
    => /\ prev[r].log = log[r]
       /\ prev[r].rewards = rewards[r]
       /\ prev[r].pc = pc[r]

\* RandomAlg has completed two runs of two steps from the same seed
C7_Witness ==
  \E r \in Runs :
    /\ pc[r] = "done" /\ alg[r].cls = "RandomAlg" /\ cfg[r].n >= 2
    /\ prev[r].cfg = cfg[r] /\ prev[r].start = start[r] /\ start[r] # NoSeed
    /\ alone[r] /\ prev[r].alone /\ prev[r].pc = "done"

\* C9: ExploreThenCommit(m), m >= 1, chooses arm t mod k at every step t < m*k
\* and at every later step the arm it chose at step m*k.
C9_RoundRobinThenCommit ==
  \A r \in Runs : (alg[r].cls = "ExploreThenCommit" /\ alg[r].hyper >= 1 /\ HasRun(r)) =>
    \A j \in Calls(r, "choose") :
      LET s == StepOf(log[r][j])
          n == Len(cfg[r].means)
      IN  IF s < alg[r].hyper * n
          THEN ArmOf(log[r][j]) = PyInt(s % n)
          ELSE \A i \in Calls(r, "choose") :
                 StepOf(log[r][i]) = alg[r].hyper * n => ArmOf(log[r][j]) = ArmOf(log[r][i])

\* C8: a run of one of the six strategies begun right after seeding, whatever
\* another run does in between its steps, makes the calls and leaves the trace
\* that the same run makes when it executes alone from that seed.
C8_InterleavingInvisible ==
  \A r \in Runs :
    (Finished(r) /\ alg[r].cls \in Classes /\ start[r] # NoSeed) =>
      LET solo == run_simulation(alg[r], cfg[r].means, cfg[r].n, np_random_seed(start[r]))
      IN  /\ log[r] = solo.log
          /\ rewards[r] = solo.rewards
          /\ pc[r] = solo.pc

----------------------------------------------------------------------------
\* the observe_reward calls before entry j of log[r] and after the last reset before it
ObservedBefore(r, j) ==
  LET resets == {i \in Calls(r, "reset") : i < j}
      from == IF resets = {} THEN 0 ELSE CHOOSE i \in resets : \A x \in resets : x <= i
  IN  SelectSeq(SubSeq(log[r], from + 1, j - 1), LAMBDA e : Op(e) = "observe")

\* the first n observations pull the arms 0, 1, ..., narms - 1 in turn
RoundRobin(obs, n, narms) ==
  /\ Len(obs) >= n
  /\ \A i \in 1 .. n : ArmOf(obs[i]) = PyInt((i - 1) % narms)

RECURSIVE RewardSum(_, _, _)
\* the sum of the rewards of arm a among the first n observations
RewardSum(obs, n, a) ==
  IF n = 0 THEN 0
  ELSE RewardSum(obs, n - 1, a)
       + (IF ArmOf(obs[n]) = PyInt(a) THEN RewardOf(obs[n]).vals[1] ELSE 0)

\* the lowest arm of highest mean over the first n observations, each arm
\* having the same number of them
BestArm(obs, n, narms) ==
  CHOOSE a \in 0 .. (narms - 1) :
    /\ \A b \in 0 .. (narms - 1) : RewardSum(obs, n, b) <= RewardSum(obs, n, a)
    /\ \A b \in 0 .. (a - 1) : RewardSum(obs, n, b) < RewardSum(obs, n, a)

\* C10: once ExploreThenCommit(m), m >= 1, has observed m rewards of every arm
\* in round-robin order since its last reset, choose_arm returns the arm of
\* highest mean over those rewards, the lowest index winning ties.
C10_CommitsToBestMean ==
  \A r \in Runs : (alg[r].cls = "ExploreThenCommit" /\ alg[r].hyper >= 1) =>
    \A j \in Calls(r, "choose") :
      LET obs == ObservedBefore(r, j)
          n == alg[r].hyper * k
      IN  RoundRobin(obs, n, k) => ArmOf(log[r][j]) = PyInt(BestArm(obs, n, k))

----------------------------------------------------------------------------
\* the number of observations of arm a
PullsOf(obs, a) == Cardinality({i \in 1 .. Len(obs) : ArmOf(obs[i]) = PyInt(a)})

\* the arms of a problem with narms arms that no observation pulled
Unpulled(obs, narms) == {a \in 0 .. (narms - 1) : PullsOf(obs, a) = 0}

\* the least element of a non-empty set of arms
LowestArm(S) == CHOOSE a \in S : \A b \in S : a <= b

\* C11: whenever some arm has no pull since the last reset, choose_arm of UCB1
\* returns the lowest arm that has none (so the first k choices of a run are
\* the arms 0 .. k-1 in turn, and no bound is computed from a count of 0).
C11_UnpulledArmFirst ==
  \A r \in Runs : alg[r].cls = "UCB1" =>
    \A j \in Calls(r, "choose") :
      LET obs == ObservedBefore(r, j)
      IN  Unpulled(obs, k) # {} => ArmOf(log[r][j]) = PyInt(LowestArm(Unpulled(obs, k)))

----------------------------------------------------------------------------
\* Running means as fractions: the mean of arm a over obs is
\* RewardSum / MeanDen, the estimate of an arm never pulled being 0

MeanDen(obs, a) == IF PullsOf(obs, a) = 0 THEN 1 ELSE PullsOf(obs, a)

\* the mean of arm a is at most the mean of arm b
MeanLeq(obs, a, b) ==
  RewardSum(obs, Len(obs), a) * MeanDen(obs, b) <= RewardSum(obs, Len(obs), b) * MeanDen(obs, a)

\* the lowest arm of highest mean
GreedyArm(obs, narms) ==
  CHOOSE a \in 0 .. (narms - 1) :
    /\ \A b \in 0 .. (narms - 1) : MeanLeq(obs, b, a)
    /\ \A b \in 0 .. (a - 1) : ~MeanLeq(obs, a, b)

\* C12: once every arm has been pulled since the last reset, choose_arm of
\* UCB1 with C = 0 returns the arm of highest running mean, the lowest index
\* winning ties, as a greedy strategy fed the same rewards does.
C12_ZeroBonusIsGreedy ==
  \A r \in Runs : (alg[r].cls = "UCB1" /\ alg[r].hyper = 0) =>
    \A j \in Calls(r, "choose") :
      LET obs == ObservedBefore(r, j)
      IN  Unpulled(obs, k) = {} => ArmOf(log[r][j]) = PyInt(GreedyArm(obs, k))

\* C13: choose_arm of EpsilonGreedy with epsilon = 0 returns, in every state,
\* the arm of highest mean estimate over the rewards observed since the last
\* reset, the lowest index winning ties.
C13_NoExploration ==
  \A r \in Runs : (alg[r].cls = "EpsilonGreedy" /\ alg[r].hyper = 0) =>
    \A j \in Calls(r, "choose") :
      ArmOf(log[r][j]) = PyInt(GreedyArm(ObservedBefore(r, j), k))

====
